---------------------------- MODULE Spec2Model ----------------------------
(***************************************************************************)
(* A model of the session-scoped orchestration core of bigquery_agent     *)
(* (src/src/beeai.py): the session map of SessionMemoryManager, the two    *)
(* request entry points that rebind the single shared agent's memory, the  *)
(* event collector, and the executor run they await.                       *)
(*                                                                         *)
(* Values.  An Optional[str] is a sequence: << >> is None and <<s>> is the *)
(* string s.  A Memory (TokenMemory) is an object on the heap, named by    *)
(* the number of its allocation; memTurns holds the turns of each object.  *)
(* A text is a sequence of string pieces, so that an f-string is the       *)
(* concatenation of its pieces.                                            *)
(***************************************************************************)
EXTENDS Integers, Sequences, FiniteSets, TLC

VARIABLES
    sessions,      \* SessionMemoryManager.sessions: session id -> Memory object
    memTurns,      \* heap of TokenMemory objects: object -> its turns
    nextMem,       \* the next object the allocator hands out
    uuidCount,     \* how many uuid4 values have been drawn
    calls,         \* log of the direct get_or_create calls, in call order
    agentMemory,   \* app.state.agent.memory: the shared agent's binding
    pc,            \* per request: where its handler stands
    req,           \* per request: the ChatRequest (mode, session_id, prompt)
    sid,           \* per request: session_id returned by get_or_create
    mem,           \* per request: memory returned by get_or_create
    collected,     \* per request: the collected_events list of the handler
    emitted,       \* per request: the lifecycle events its run has emitted
    collectorRaised, \* per request: capture_event raised an exception
    response,      \* per request: what the handler returned to the transport
    execution,     \* per request: the AgentExecutionConfig given to its run
    iteration,     \* per request: iterations its run has started
    stepRetries,   \* per request: retries of the current step
    totalRetries,  \* per request: abandoned steps over the run
    phase,         \* per request: "idle" between steps, "step" inside one
    runState,      \* per request: "none", "running", "succeeded", "failed"
    runResult,     \* per request: what the ended run returned or raised
    reasoning,     \* per request: "any" or "always_fails" (the capability)
    bq,            \* the invocation of the query tool that is followed
    fw             \* the invocation of the fiscal week tool that is followed

vars == <<sessions, memTurns, nextMem, uuidCount, calls, agentMemory, pc, req,
          sid, mem, collected, emitted, collectorRaised, response, execution,
          iteration, stepRetries, totalRetries, phase, runState, runResult,
          reasoning, bq, fw>>

sessionVars == <<sessions, memTurns, nextMem, uuidCount>>
requestVars == <<pc, req, sid, mem, response, execution>>
eventVars == <<collected, emitted, collectorRaised>>
loopVars == <<iteration, stepRetries, totalRetries, phase, runState,
              runResult, reasoning>>
toolVars == <<bq, fw>>

----------------------------------------------------------------------------
(* Bounds of the model. *)

\* direct get_or_create calls in a behaviour
MaxCalls == 4
\* turns one Memory takes from its holder, and turns the runs append
MaxTurns == 1
\* requests that may be in flight together
MaxRequests == 2
\* lifecycle events one run emits
MaxEvents == 3

----------------------------------------------------------------------------
(* Session identifiers. *)

None == << >>
Some(s) == <<s>>

\* identifiers a client makes up itself
ClientIds == {"a", "b"}

\* uuid.uuid4() draws: the k-th draw is UuidPool[k].  uuid4 values are taken
\* to be globally unique: no two draws agree, and no client makes up a value
\* that is drawn later.
UuidPool == <<"u1", "u2", "u3", "u4", "u5", "u6", "u7", "u8", "u9", "u10">>

DrawnUuids == {UuidPool[k] : k \in 1..uuidCount}

\* what a caller can pass as session_id: nothing, the empty string, an
\* identifier of its own, or an identifier some response gave it
SessionArgs == {None, Some("")} \cup {Some(s) : s \in ClientIds \cup DrawnUuids}

TruthyUnlessNone(session_id) == session_id # << >>

\* Python truthiness of an Optional[str]: None and "" are falsy
Truthy(session_id) == session_id # None /\ session_id[1] # ""

Uuid4Reused == UuidPool[1]

\* str(uuid.uuid4())
Uuid4 == UuidPool[uuidCount + 1]

IsKnownNever(id) == FALSE

\* session_id in self.sessions
IsKnown(id) == id \in DOMAIN sessions

NewMemoryShared == agentMemory

\* TokenMemory(self.llm): a new object with no turns
NewMemory == nextMem

GetOrCreateClearsKnown(session_id) ==
    LET generated == ~Truthy(session_id)
        id == IF generated THEN Uuid4 ELSE session_id[1]
        known == IsKnown(id)
        m == IF known THEN sessions[id] ELSE NewMemory
    IN  [session_id |-> id,
         memory |-> m,
         known |-> known,
         sessions |-> IF known THEN sessions
                      ELSE [k \in DOMAIN sessions \cup {id} |->
                               IF k = id THEN m ELSE sessions[k]],
         memTurns |-> IF known THEN [memTurns EXCEPT ![m] = << >>]
                      ELSE memTurns @@ (m :> << >>),
         nextMem |-> IF known THEN nextMem ELSE nextMem + 1,
         uuidCount |-> IF generated THEN uuidCount + 1 ELSE uuidCount]

\* get_or_create(session_id): the identifier and Memory it returns and the
\* state it leaves
GetOrCreate(session_id) ==
    LET generated == ~Truthy(session_id)
        id == IF generated THEN Uuid4 ELSE session_id[1]
        known == IsKnown(id)
        m == IF known THEN sessions[id] ELSE NewMemory
    IN  [session_id |-> id,
         memory |-> m,
         known |-> known,
         sessions |-> IF known THEN sessions
                      ELSE [k \in DOMAIN sessions \cup {id} |->
                               IF k = id THEN m ELSE sessions[k]],
         memTurns |-> IF known THEN memTurns ELSE memTurns @@ (m :> << >>),
         nextMem |-> IF known THEN nextMem ELSE nextMem + 1,
         uuidCount |-> IF generated THEN uuidCount + 1 ELSE uuidCount]

\* a direct call of memory_manager.get_or_create(session_id)
CallGetOrCreate(session_id) ==
    /\ Len(calls) < MaxCalls
    /\ LET g == GetOrCreate(session_id) IN
        /\ sessions' = g.sessions
        /\ memTurns' = g.memTurns
        /\ nextMem' = g.nextMem
        /\ uuidCount' = g.uuidCount
        /\ calls' = Append(calls, [arg |-> session_id,
                                   session_id |-> g.session_id,
                                   memory |-> g.memory,
                                   known |-> g.known,
                                   turns |-> g.memTurns[g.memory]])
    /\ UNCHANGED <<toolVars, agentMemory, requestVars, eventVars, loopVars>>

\* the holder of a session's Memory adds a turn to it (TokenMemory.add)
MemoryAdd(id) ==
    /\ id \in DOMAIN sessions
    /\ Len(memTurns[sessions[id]]) < MaxTurns
    /\ memTurns' = [memTurns EXCEPT ![sessions[id]] =
                        Append(@, [by |-> 0, role |-> "user"])]
    /\ UNCHANGED <<toolVars, sessions, nextMem, uuidCount, calls, agentMemory,
                   requestVars, eventVars, loopVars>>

----------------------------------------------------------------------------
Requests == 1..MaxRequests

\* a run that has not ended has returned nothing
NoResult == [kind |-> "none", text |-> << >>]

\* a request that has not arrived, and a handler that has not returned
NoRequest == [mode |-> "none", session_id |-> None, prompt |-> ""]
NoResponse == [kind |-> "none", raised |-> FALSE, response |-> << >>,
               session_id |-> "", events |-> << >>]

\* no run has been started: no AgentExecutionConfig has been made
NoExecution ==
    [max_retries_per_step |-> 0, total_max_retries |-> 0, max_iterations |-> 0]

\* the query tool before it is invoked: no input, no connection, no
\* statement submitted, nothing returned or raised; backend is what the
\* warehouse and its client library have done so far
BqIdle == [pc |-> "idle", action |-> "", query |-> << >>, connections |-> 0,
           submitted |-> << >>, checked |-> << >>, backend |-> << >>,
           result |-> [success |-> FALSE, error |-> << >>, results |-> << >>],
           raised |-> << >>]

\* the fiscal week tool before it is invoked
FwIdle == [pc |-> "idle", year |-> 0, month |-> 0, day |-> 0,
           result |-> << >>]

\* lifespan(): the agent is built with a Memory of its own (object 0) and
\* the session map starts empty; no request has arrived
InitBase ==
    /\ sessions = << >>
    /\ memTurns = (0 :> << >>)
    /\ nextMem = 1
    /\ uuidCount = 0
    /\ calls = << >>
    /\ agentMemory = 0
    /\ pc = [r \in Requests |-> "idle"]
    /\ req = [r \in Requests |-> NoRequest]
    /\ sid = [r \in Requests |-> ""]
    /\ mem = [r \in Requests |-> 0]
    /\ collected = [r \in Requests |-> << >>]
    /\ emitted = [r \in Requests |-> << >>]
    /\ collectorRaised = [r \in Requests |-> FALSE]
    /\ response = [r \in Requests |-> NoResponse]
    /\ execution = [r \in Requests |-> NoExecution]
    /\ iteration = [r \in Requests |-> 0]
    /\ stepRetries = [r \in Requests |-> 0]
    /\ totalRetries = [r \in Requests |-> 0]
    /\ phase = [r \in Requests |-> "idle"]
    /\ runState = [r \in Requests |-> "none"]
    /\ runResult = [r \in Requests |-> NoResult]
    /\ bq = BqIdle
    /\ fw = FwIdle

\* the reasoning capability behind a run may fail any step it likes
Init ==
    /\ InitBase
    /\ reasoning = [r \in Requests |-> "any"]

NextSessions ==
    \/ \E session_id \in SessionArgs : CallGetOrCreate(session_id)
    \/ \E id \in ClientIds \cup DrawnUuids : MemoryAdd(id)

\* the session map under direct calls
SpecSessions == Init /\ [][NextSessions]_vars

----------------------------------------------------------------------------
(* The executor run, as the request handlers see it.  agent.run() takes no *)
(* memory argument: the run works on the Memory bound to the agent.  Its   *)
(* steps are separated by suspensions (model inference, tool calls), at    *)
(* which the handlers of other requests run.                               *)

Prompts == {"hello"}

\* a final answer, as its text fragments
Answers == {<<"The ", "answer">>}

\* errors a run can raise: FrameworkError and other exceptions
RunErrors == {[kind |-> "framework", text |-> <<"budget">>],
              [kind |-> "generic", text |-> <<"boom">>]}

\* e.explain() of a FrameworkError: a text made from the error
Explain(e) == <<"explanation of ">> \o e.text

\* str(ex) of an exception: its message
StrOfException(e) == e.text

\* the Memory a step of the run of request r works on: the agent's binding
\* at the time of the step
RunMemory(r) == agentMemory

\* the turns that runs have appended, over all Memory objects
RunTurns ==
    Cardinality({p \in UNION {{<<m, i>> : i \in 1..Len(memTurns[m])} :
                                  m \in DOMAIN memTurns} :
                    memTurns[p[1]][p[2]].by \in Requests})

\* a step of the run of request r reads the conversation and appends a turn
ExecTurn(r) ==
    /\ runState[r] = "running"
    /\ RunTurns < MaxTurns
    /\ memTurns' = [memTurns EXCEPT ![RunMemory(r)] =
                        Append(@, [by |-> r, role |-> "assistant"])]
    /\ UNCHANGED <<toolVars, sessions, nextMem, uuidCount, calls, agentMemory,
                   requestVars, eventVars, loopVars>>

\* the run of request r ends: it returns its final answer or raises
RunEnds(r, result) ==
    /\ runState[r] = "running"
    /\ runState' = [runState EXCEPT ![r] =
                        IF result.kind = "ok" THEN "succeeded" ELSE "failed"]
    /\ runResult' = [runResult EXCEPT ![r] = result]
    /\ UNCHANGED <<toolVars, sessionVars, calls, agentMemory, requestVars, eventVars,
                   iteration, stepRetries, totalRetries, phase, reasoning>>

RunResults == {[kind |-> "ok", text |-> a] : a \in Answers} \cup RunErrors

\* what a client sends as session_id with a request
RequestArgs == SessionArgs

----------------------------------------------------------------------------
(* POST /chat *)

\* AgentExecutionConfig(...) of chat_endpoint
ChatExecution ==
    [max_retries_per_step |-> 3, total_max_retries |-> 10,
     max_iterations |-> 20]

StreamExecutionSwapped ==
    [max_retries_per_step |-> 3, total_max_retries |-> 20,
     max_iterations |-> 10]

\* AgentExecutionConfig(...) of token_streamer
StreamExecution ==
    [max_retries_per_step |-> 3, total_max_retries |-> 10,
     max_iterations |-> 20]


\* requests are numbered in the order they arrive
Arrives(r) == pc[r] = "idle" /\ \A q \in Requests : q < r => pc[q] # "idle"

\* chat_endpoint up to its await: resolve the session, bind its Memory to
\* the shared agent, make the event list and its collector, start the run
ChatBegin(r, session_id, prompt) ==
    /\ Arrives(r)
    /\ LET g == GetOrCreate(session_id) IN
        /\ sessions' = g.sessions
        /\ memTurns' = g.memTurns
        /\ nextMem' = g.nextMem
        /\ uuidCount' = g.uuidCount
        /\ sid' = [sid EXCEPT ![r] = g.session_id]
        /\ mem' = [mem EXCEPT ![r] = g.memory]
        /\ agentMemory' = g.memory
    /\ req' = [req EXCEPT ![r] = [mode |-> "chat", session_id |-> session_id,
                                  prompt |-> prompt]]
    /\ collected' = [collected EXCEPT ![r] = << >>]
    /\ pc' = [pc EXCEPT ![r] = "chat_running"]
    /\ execution' = [execution EXCEPT ![r] = ChatExecution]
    /\ runState' = [runState EXCEPT ![r] = "running"]
    /\ UNCHANGED <<toolVars, calls, response, emitted, collectorRaised, iteration,
                   stepRetries, totalRetries, phase, runResult, reasoning>>

ChatResponseNoGenericHandler(result, session_id, events) ==
    IF result.kind = "ok"
    THEN [kind |-> "chat", raised |-> FALSE, response |-> result.text,
          session_id |-> session_id, events |-> events]
    ELSE IF result.kind = "framework"
    THEN [kind |-> "chat", raised |-> FALSE,
          response |-> <<"Agent error: ">> \o Explain(result),
          session_id |-> session_id, events |-> events]
    ELSE [kind |-> "chat", raised |-> TRUE, response |-> << >>,
          session_id |-> "", events |-> << >>]

ChatResponseDropsEvents(result, session_id, events) ==
    IF result.kind = "ok"
    THEN [kind |-> "chat", raised |-> FALSE, response |-> result.text,
          session_id |-> session_id, events |-> events]
    ELSE [kind |-> "chat", raised |-> FALSE,
          response |-> <<"Agent error: ">> \o
                          (IF result.kind = "framework" THEN Explain(result)
                           ELSE StrOfException(result)),
          session_id |-> session_id, events |-> << >>]

ChatResponseErrorsDropSession(result, session_id, events) ==
    IF result.kind = "ok"
    THEN [kind |-> "chat", raised |-> FALSE, response |-> result.text,
          session_id |-> session_id, events |-> events]
    ELSE [kind |-> "chat", raised |-> FALSE,
          response |-> <<"Agent error: ">> \o
                          (IF result.kind = "framework" THEN Explain(result)
                           ELSE StrOfException(result)),
          session_id |-> "", events |-> events]

\* what chat_endpoint returns for the way the awaited run ended: the
\* ChatResponse of the try body or of one of the two except clauses
ChatResponse(result, session_id, events) ==
    IF result.kind = "ok"
    THEN [kind |-> "chat", raised |-> FALSE, response |-> result.text,
          session_id |-> session_id, events |-> events]
    ELSE IF result.kind = "framework"
    THEN [kind |-> "chat", raised |-> FALSE,
          response |-> <<"Agent error: ">> \o Explain(result),
          session_id |-> session_id, events |-> events]
    ELSE [kind |-> "chat", raised |-> FALSE,
          response |-> <<"Agent error: ">> \o StrOfException(result),
          session_id |-> session_id, events |-> events]

ChatReturnDropsSession(r) ==
    /\ pc[r] = "chat_running"
    /\ runState[r] \in {"succeeded", "failed"}
    /\ response' = [response EXCEPT ![r] =
                        ChatResponse(runResult[r], sid[r], collected[r])]
    /\ pc' = [pc EXCEPT ![r] = "done"]
    /\ sessions' = [k \in DOMAIN sessions \ {sid[r]} |-> sessions[k]]
    /\ UNCHANGED <<toolVars, memTurns, nextMem, uuidCount, calls, agentMemory, req, sid,
                   mem, execution, eventVars, loopVars>>

\* chat_endpoint after its await: the run has ended and the handler returns
ChatReturn(r) ==
    /\ pc[r] = "chat_running"
    /\ runState[r] \in {"succeeded", "failed"}
    /\ response' = [response EXCEPT ![r] =
                        ChatResponse(runResult[r], sid[r], collected[r])]
    /\ pc' = [pc EXCEPT ![r] = "done"]
    /\ UNCHANGED <<toolVars, sessionVars, calls, agentMemory, req, sid, mem, execution,
                   eventVars, loopVars>>

----------------------------------------------------------------------------
(* POST /chat/stream *)

\* chat_stream_endpoint: resolve the session and return the
\* StreamingResponse with its header; the generator has not started
StreamBegin(r, session_id, prompt) ==
    /\ Arrives(r)
    /\ LET g == GetOrCreate(session_id) IN
        /\ sessions' = g.sessions
        /\ memTurns' = g.memTurns
        /\ nextMem' = g.nextMem
        /\ uuidCount' = g.uuidCount
        /\ sid' = [sid EXCEPT ![r] = g.session_id]
        /\ mem' = [mem EXCEPT ![r] = g.memory]
        /\ response' = [response EXCEPT ![r] =
               [kind |-> "stream", raised |-> FALSE, response |-> << >>,
                session_id |-> g.session_id, events |-> << >>]]
    /\ req' = [req EXCEPT ![r] = [mode |-> "stream", session_id |-> session_id,
                                  prompt |-> prompt]]
    /\ pc' = [pc EXCEPT ![r] = "stream_open"]
    /\ UNCHANGED <<toolVars, calls, agentMemory, execution, eventVars, loopVars>>

\* token_streamer up to its await: bind the Memory to the shared agent and
\* start the run
StreamStart(r) ==
    /\ pc[r] = "stream_open"
    /\ agentMemory' = mem[r]
    /\ pc' = [pc EXCEPT ![r] = "stream_running"]
    /\ execution' = [execution EXCEPT ![r] = StreamExecution]
    /\ runState' = [runState EXCEPT ![r] = "running"]
    /\ UNCHANGED <<toolVars, sessionVars, calls, req, sid, mem, response, eventVars,
                   iteration, stepRetries, totalRetries, phase, runResult,
                   reasoning>>

StreamAfterRunWritesError(r) ==
    /\ pc[r] = "stream_running"
    /\ runState[r] \in {"succeeded", "failed"}
    /\ IF runResult[r].kind = "ok"
       THEN /\ pc' = [pc EXCEPT ![r] = "streaming"]
            /\ UNCHANGED response
       ELSE /\ pc' = [pc EXCEPT ![r] = "done"]
            /\ response' = [response EXCEPT ![r].response =
                                <<"Agent error: ">> \o StrOfException(runResult[r])]
    /\ UNCHANGED <<toolVars, sessionVars, calls, agentMemory, req, sid, mem,
                   execution, eventVars, loopVars>>

\* token_streamer after its await: a run that raised ends the stream; a run
\* that returned is iterated for its text
StreamAfterRun(r) ==
    /\ pc[r] = "stream_running"
    /\ runState[r] \in {"succeeded", "failed"}
    /\ IF runResult[r].kind = "ok"
       THEN /\ pc' = [pc EXCEPT ![r] = "streaming"]
            /\ UNCHANGED response
       ELSE /\ pc' = [pc EXCEPT ![r] = "done"]
            /\ response' = [response EXCEPT ![r].raised = TRUE]
    /\ UNCHANGED <<toolVars, sessionVars, calls, agentMemory, req, sid, mem, execution,
                   eventVars, loopVars>>

StreamYieldRepeatsFirst(r) ==
    /\ pc[r] = "streaming"
    /\ LET sent == Len(response[r].response) IN
        IF sent < Len(runResult[r].text)
        THEN /\ response' = [response EXCEPT ![r].response =
                                 Append(@, runResult[r].text[1])]
             /\ UNCHANGED pc
        ELSE /\ pc' = [pc EXCEPT ![r] = "done"]
             /\ UNCHANGED response
    /\ UNCHANGED <<toolVars, sessionVars, calls, agentMemory, req, sid, mem, execution,
                   eventVars, loopVars>>

\* async for chunk in response.stream_text(): yield chunk
StreamYield(r) ==
    /\ pc[r] = "streaming"
    /\ LET sent == Len(response[r].response) IN
        IF sent < Len(runResult[r].text)
        THEN /\ response' = [response EXCEPT ![r].response =
                                 Append(@, runResult[r].text[sent + 1])]
             /\ UNCHANGED pc
        ELSE /\ pc' = [pc EXCEPT ![r] = "done"]
             /\ UNCHANGED response
    /\ UNCHANGED <<toolVars, sessionVars, calls, agentMemory, req, sid, mem, execution,
                   eventVars, loopVars>>


NextChat ==
    \/ \E r \in Requests, a \in RequestArgs, p \in Prompts : ChatBegin(r, a, p)
    \/ \E r \in Requests, a \in RequestArgs, p \in Prompts : StreamBegin(r, a, p)
    \/ \E r \in Requests : StreamStart(r)
    \/ \E r \in Requests : ExecTurn(r)
    \/ \E r \in Requests, res \in RunResults : RunEnds(r, res)
    \/ \E r \in Requests : ChatReturn(r)
    \/ \E r \in Requests : StreamAfterRun(r)
    \/ \E r \in Requests : StreamYield(r)

\* concurrent requests to both entry points
SpecChat == Init /\ [][NextChat]_vars

\* the request that is followed alone
Traced == {1}

NextRequest ==
    \/ \E r \in Traced, a \in RequestArgs, p \in Prompts : ChatBegin(r, a, p)
    \/ \E r \in Traced, a \in RequestArgs, p \in Prompts : StreamBegin(r, a, p)
    \/ \E r \in Traced : StreamStart(r)
    \/ \E r \in Traced : ExecTurn(r)
    \/ \E r \in Traced, res \in RunResults : RunEnds(r, res)
    \/ \E r \in Traced : ChatReturn(r)
    \/ \E r \in Traced : StreamAfterRun(r)
    \/ \E r \in Traced : StreamYield(r)

\* one request to either entry point, from arrival to the end of its response
SpecRequest == Init /\ [][NextRequest]_vars

\* The handlers are coroutines on one event loop, and neither has an await
\* between its entry and the end of get_or_create: the steps of concurrent
\* requests interleave only at the awaits, which is where the actions are cut.
NextServing ==
    \/ \E r \in Requests, a \in RequestArgs, p \in Prompts : ChatBegin(r, a, p)
    \/ \E r \in Requests, a \in RequestArgs, p \in Prompts : StreamBegin(r, a, p)
    \/ \E r \in Requests : StreamStart(r)
    \/ \E r \in Requests, res \in RunResults : RunEnds(r, res)
    \/ \E r \in Requests : ChatReturn(r)
    \/ \E r \in Requests : StreamAfterRun(r)

\* concurrent requests to both entry points, from the resolution of their
\* sessions to the end of their runs
SpecServing == Init /\ [][NextServing]_vars

----------------------------------------------------------------------------
(* Lifecycle events and the collector of create_event_collector. *)

NoData == [key |-> "", parsed_value |-> [t |-> "none", s |-> "", n |-> 0],
           error |-> [kind |-> "none", text |-> << >>]]

\* data.update of an update event: a key and a parsed value (a str or an int)
UpdateData ==
    {[NoData EXCEPT !.key = "thought",
                    !.parsed_value = [t |-> "str", s |-> "hi", n |-> 0]],
     [NoData EXCEPT !.key = "tool_input",
                    !.parsed_value = [t |-> "int", s |-> "", n |-> 7]]}

\* data.error of an error event
ErrorData == {[NoData EXCEPT !.error = e] : e \in RunErrors}

\* event names the collector knows, and names it does not
Recognized == {"update", "error", "retry", "start", "success"}
OtherNames == {"partial_update"}

\* the events a run can emit: (event.name, data)
LifecycleEvents ==
    {[name |-> "update", data |-> d] : d \in UpdateData}
    \cup {[name |-> "error", data |-> d] : d \in ErrorData}
    \cup {[name |-> n, data |-> NoData] : n \in {"retry", "start", "success"}}
    \cup {[name |-> n, data |-> d] : n \in OtherNames, d \in {NoData}}

Digits == <<"1", "2", "3", "4", "5", "6", "7", "8", "9">>

\* str(v) of a parsed value: a str is itself, an int is its decimal digits
PyStr(v) == IF v.t = "str" THEN <<v.s>> ELSE <<Digits[v.n]>>

\* FrameworkError.ensure(err).explain(): the explanation of the error, which
\* is wrapped in a FrameworkError first when it is not one
EnsureExplain(e) ==
    IF e.kind = "framework" THEN Explain(e)
    ELSE Explain([kind |-> "framework", text |-> StrOfException(e)])

\* AgentEvent(type, message, key=None)
AgentEvent(type, message, key) ==
    [type |-> type, message |-> message, key |-> key]

\* whether the collector knows the event's name
IsRecognized(e) == e.name \in Recognized

\* the record the mapping table gives for a recognized event
TableRecord(e) ==
    CASE e.name = "update" ->
            [type |-> "update", message |-> PyStr(e.data.parsed_value),
             key |-> Some(e.data.key)]
      [] e.name = "error" ->
            [type |-> "error", message |-> EnsureExplain(e.data.error),
             key |-> None]
      [] e.name = "retry" ->
            [type |-> "retry", message |-> <<"retrying the action...">>,
             key |-> None]
      [] e.name = "start" ->
            [type |-> "start", message |-> <<"starting new iteration">>,
             key |-> None]
      [] e.name = "success" ->
            [type |-> "success", message |-> <<"success">>, key |-> None]

CaptureEventDedups(event_list, event) ==
    IF IsRecognized(event)
       /\ \A i \in 1..Len(event_list) : event_list[i] # TableRecord(event)
    THEN [events |-> Append(event_list, TableRecord(event)), raised |-> FALSE]
    ELSE [events |-> event_list, raised |-> FALSE]

CaptureEventPrepends(event_list, event) ==
    IF IsRecognized(event)
    THEN [events |-> <<TableRecord(event)>> \o event_list, raised |-> FALSE]
    ELSE [events |-> event_list, raised |-> FALSE]

CaptureEventStartLiteral(event_list, event) ==
    IF event.name = "start"
    THEN [events |-> Append(event_list,
                        AgentEvent("start", <<"starting iteration">>, None)),
          raised |-> FALSE]
    ELSE IF IsRecognized(event)
    THEN [events |-> Append(event_list, TableRecord(event)), raised |-> FALSE]
    ELSE [events |-> event_list, raised |-> FALSE]

\* capture_event(data, event) on the list event_list of its closure: the
\* list afterwards, and whether the call raised
CaptureEvent(event_list, event) ==
    IF event.name = "update"
    THEN [events |-> Append(event_list,
                        AgentEvent("update", PyStr(event.data.parsed_value),
                                   Some(event.data.key))),
          raised |-> FALSE]
    ELSE IF event.name = "error"
    THEN [events |-> Append(event_list,
                        AgentEvent("error", EnsureExplain(event.data.error),
                                   None)),
          raised |-> FALSE]
    ELSE IF event.name = "retry"
    THEN [events |-> Append(event_list,
                        AgentEvent("retry", <<"retrying the action...">>,
                                   None)),
          raised |-> FALSE]
    ELSE IF event.name = "start"
    THEN [events |-> Append(event_list,
                        AgentEvent("start", <<"starting new iteration">>,
                                   None)),
          raised |-> FALSE]
    ELSE IF event.name = "success"
    THEN [events |-> Append(event_list,
                        AgentEvent("success", <<"success">>, None)),
          raised |-> FALSE]
    ELSE [events |-> event_list, raised |-> FALSE]

EmitToEveryCollector(r, event) ==
    /\ runState[r] = "running"
    /\ Len(emitted[r]) < MaxEvents
    /\ emitted' = [emitted EXCEPT ![r] = Append(@, event)]
    /\ collected' = [q \in Requests |->
                        IF runState[q] = "running" /\ req[q].mode = "chat"
                        THEN CaptureEvent(collected[q], event).events
                        ELSE collected[q]]
    /\ UNCHANGED <<toolVars, collectorRaised, sessionVars, calls, agentMemory,
                   requestVars, loopVars>>

\* the run of request r emits a lifecycle event; the run of a buffered
\* request delivers it to the collector registered with .on("*", ...)
Emit(r, event) ==
    /\ runState[r] = "running"
    /\ Len(emitted[r]) < MaxEvents
    /\ emitted' = [emitted EXCEPT ![r] = Append(@, event)]
    /\ IF req[r].mode = "chat"
       THEN LET c == CaptureEvent(collected[r], event) IN
            /\ collected' = [collected EXCEPT ![r] = c.events]
            /\ collectorRaised' = [collectorRaised EXCEPT ![r] = @ \/ c.raised]
       ELSE UNCHANGED <<collected, collectorRaised>>
    /\ UNCHANGED <<toolVars, sessionVars, calls, agentMemory, requestVars, loopVars>>

NextEvents ==
    \/ \E r \in Traced, a \in RequestArgs, p \in Prompts : ChatBegin(r, a, p)
    \/ \E r \in Traced, e \in LifecycleEvents : Emit(r, e)
    \/ \E r \in Traced : ExecTurn(r)
    \/ \E r \in Traced, res \in RunResults : RunEnds(r, res)
    \/ \E r \in Traced : ChatReturn(r)

\* one buffered request, its run's events and its response
SpecEvents == Init /\ [][NextEvents]_vars

\* events the runs of concurrent requests emit: one the collector records
\* and one it does not
ConcurrentEvents ==
    {[name |-> "update",
      data |-> [NoData EXCEPT !.key = "thought",
                              !.parsed_value = [t |-> "str", s |-> "hi", n |-> 0]]],
     [name |-> "partial_update", data |-> NoData]}

\* session_id of concurrent buffered requests: the one a client uses for
\* all of them
ConcurrentArgs == {Some("a")}

RECURSIVE SumOfLens(_, _)
SumOfLens(f, S) ==
    IF S = {} THEN 0
    ELSE LET x == CHOOSE y \in S : TRUE
         IN  Len(f[x]) + SumOfLens(f, S \ {x})

\* events emitted so far by all runs
TotalEmitted == SumOfLens(emitted, Requests)

NextChatEvents ==
    \/ \E r \in Requests, a \in ConcurrentArgs, p \in Prompts : ChatBegin(r, a, p)
    \/ \E r \in Requests, e \in ConcurrentEvents :
          TotalEmitted < MaxEvents /\ Emit(r, e)
    \/ \E r \in Requests, res \in RunResults : RunEnds(r, res)
    \/ \E r \in Requests : ChatReturn(r)

\* concurrent buffered requests, the events of their runs and their
\* responses
SpecChatEvents == Init /\ [][NextChatEvents]_vars

NextRequestEvents ==
    \/ NextEvents
    \/ \E r \in Traced, a \in RequestArgs, p \in Prompts : StreamBegin(r, a, p)
    \/ \E r \in Traced : StreamStart(r)
    \/ \E r \in Traced : StreamAfterRun(r)
    \/ \E r \in Traced : StreamYield(r)

\* one request to either entry point, its run's events and its response
SpecRequestEvents == Init /\ [][NextRequestEvents]_vars

----------------------------------------------------------------------------
(* The executor's loop and its budget.  The loop is the framework's; it is *)
(* modelled from the design of the Agentic Executor: a run alternates      *)
(* iterations, a failing step is retried, an abandoned step counts against *)
(* the run, and a spent budget ends the run with a failure.                *)

\* the budget the run of request r was started with
Budget(r) == execution[r]

\* the failure a spent budget ends the run with
BudgetFailure == [kind |-> "framework", text |-> <<"budget">>]

AfterFailureResets(s, t, b) ==
    IF s + 1 > b.max_retries_per_step
    THEN [verdict |-> "retry", step |-> 0, total |-> t]
    ELSE [verdict |-> "retry", step |-> s + 1, total |-> t]

AfterFailureNoTotal(s, t, b) ==
    IF s + 1 > b.max_retries_per_step
    THEN [verdict |-> "abandon", step |-> s + 1, total |-> t + 1]
    ELSE [verdict |-> "retry", step |-> s + 1, total |-> t]

\* a failed step with s retries behind it, in a run with t abandoned steps:
\* retry it, abandon it, or end the run
AfterFailure(s, t, b) ==
    IF s + 1 > b.max_retries_per_step
    THEN IF t + 1 > b.total_max_retries
         THEN [verdict |-> "fail", step |-> s + 1, total |-> t + 1]
         ELSE [verdict |-> "abandon", step |-> s + 1, total |-> t + 1]
    ELSE [verdict |-> "retry", step |-> s + 1, total |-> t]

\* the run of request r starts its next iteration, or ends because the
\* iteration count would exceed max_iterations
BeginIteration(r) ==
    /\ runState[r] = "running"
    /\ phase[r] = "idle"
    /\ IF iteration[r] + 1 > Budget(r).max_iterations
       THEN /\ runState' = [runState EXCEPT ![r] = "failed"]
            /\ runResult' = [runResult EXCEPT ![r] = BudgetFailure]
            /\ UNCHANGED <<iteration, stepRetries, phase>>
       ELSE /\ iteration' = [iteration EXCEPT ![r] = @ + 1]
            /\ stepRetries' = [stepRetries EXCEPT ![r] = 0]
            /\ phase' = [phase EXCEPT ![r] = "step"]
            /\ UNCHANGED <<runState, runResult>>
    /\ UNCHANGED <<toolVars, sessionVars, calls, agentMemory, requestVars, eventVars,
                   totalRetries, reasoning>>

\* the step is a final answer: the run succeeds
StepFinalAnswer(r, answer) ==
    /\ runState[r] = "running"
    /\ phase[r] = "step"
    /\ reasoning[r] = "any"
    /\ runState' = [runState EXCEPT ![r] = "succeeded"]
    /\ runResult' = [runResult EXCEPT ![r] = [kind |-> "ok", text |-> answer]]
    /\ UNCHANGED <<toolVars, sessionVars, calls, agentMemory, requestVars, eventVars,
                   iteration, stepRetries, totalRetries, phase, reasoning>>

\* the step is a tool call that works: on to the next iteration
StepToolCall(r) ==
    /\ runState[r] = "running"
    /\ phase[r] = "step"
    /\ reasoning[r] = "any"
    /\ phase' = [phase EXCEPT ![r] = "idle"]
    /\ UNCHANGED <<toolVars, sessionVars, calls, agentMemory, requestVars, eventVars,
                   iteration, stepRetries, totalRetries, runState, runResult,
                   reasoning>>

\* the step fails (tool error, malformed model output)
StepFails(r) ==
    /\ runState[r] = "running"
    /\ phase[r] = "step"
    /\ LET f == AfterFailure(stepRetries[r], totalRetries[r], Budget(r)) IN
        /\ stepRetries' = [stepRetries EXCEPT ![r] = f.step]
        /\ totalRetries' = [totalRetries EXCEPT ![r] = f.total]
        /\ phase' = [phase EXCEPT ![r] =
                        IF f.verdict = "retry" THEN "step" ELSE "idle"]
        /\ runState' = [runState EXCEPT ![r] =
                        IF f.verdict = "fail" THEN "failed" ELSE @]
        /\ runResult' = [runResult EXCEPT ![r] =
                        IF f.verdict = "fail" THEN BudgetFailure ELSE @]
    /\ UNCHANGED <<toolVars, sessionVars, calls, agentMemory, requestVars, eventVars,
                   iteration, reasoning>>

\* a buffered request may meet a reasoning capability that fails every step
InitRun ==
    /\ InitBase
    /\ reasoning \in [Requests -> {"any", "always_fails"}]
    /\ \A r \in Requests \ Traced : reasoning[r] = "any"

NextRun ==
    \/ \E r \in Traced, a \in RequestArgs, p \in Prompts : ChatBegin(r, a, p)
    \/ \E r \in Traced : BeginIteration(r)
    \/ \E r \in Traced, a \in Answers : StepFinalAnswer(r, a)
    \/ \E r \in Traced : StepToolCall(r)
    \/ \E r \in Traced : StepFails(r)
    \/ \E r \in Traced : ChatReturn(r)

\* one buffered request and the loop of its run
SpecRun == InitRun /\ [][NextRun]_vars

\* the event loop resumes a handler or a run whose awaited call has returned
FairSpecRun == SpecRun /\ WF_vars(NextRun)

----------------------------------------------------------------------------
(* The query tool (BigQueryTool).  A text is the sequence of its           *)
(* characters; an Optional value is None or Some(v).                       *)

Lowers == <<"a", "b", "c", "d", "e", "f", "g", "h", "i", "j", "k", "l", "m",
            "n", "o", "p", "q", "r", "s", "t", "u", "v", "w", "x", "y", "z">>
Uppers == <<"A", "B", "C", "D", "E", "F", "G", "H", "I", "J", "K", "L", "M",
            "N", "O", "P", "Q", "R", "S", "T", "U", "V", "W", "X", "Y", "Z">>

\* the characters of the query texts that str.strip() removes
Whitespace == {" ", "\n"}

\* str.upper() and str.lower() of one character
UpperChar(c) ==
    IF \E i \in DOMAIN Lowers : Lowers[i] = c
    THEN Uppers[CHOOSE i \in DOMAIN Lowers : Lowers[i] = c]
    ELSE c
LowerChar(c) ==
    IF \E i \in DOMAIN Uppers : Uppers[i] = c
    THEN Lowers[CHOOSE i \in DOMAIN Uppers : Uppers[i] = c]
    ELSE c

\* str.upper()
Upper(t) == [i \in DOMAIN t |-> UpperChar(t[i])]

RECURSIVE LStrip(_)
LStrip(t) ==
    IF t # << >> /\ Head(t) \in Whitespace THEN LStrip(Tail(t)) ELSE t

RECURSIVE RStrip(_)
RStrip(t) ==
    IF t # << >> /\ t[Len(t)] \in Whitespace
    THEN RStrip(SubSeq(t, 1, Len(t) - 1))
    ELSE t

\* str.strip()
Strip(t) == LStrip(RStrip(t))

\* str.startswith(prefix)
StartsWith(t, prefix) ==
    Len(prefix) <= Len(t) /\ SubSeq(t, 1, Len(prefix)) = prefix

SELECT == <<"S", "E", "L", "E", "C", "T">>
SHOW == <<"S", "H", "O", "W">>
DESC == <<"D", "E", "S", "C">>

IsReadOnlyQueryNoUpper(query) ==
    LET normalized_query == Strip(query)
    IN  \/ StartsWith(normalized_query, SELECT)
        \/ StartsWith(normalized_query, SHOW)
        \/ StartsWith(normalized_query, DESC)

\* is_read_only_query(query)
IsReadOnlyQuery(query) ==
    LET normalized_query == Upper(Strip(query))
    IN  \/ StartsWith(normalized_query, SELECT)
        \/ StartsWith(normalized_query, SHOW)
        \/ StartsWith(normalized_query, DESC)

\* leading and trailing whitespace a query text may come with
MaxPad == 2

RECURSIVE SeqsUpTo(_, _)
SeqsUpTo(S, n) ==
    IF n = 0 THEN {<< >>}
    ELSE LET shorter == SeqsUpTo(S, n - 1)
         IN  shorter \cup {Append(t, c) : t \in shorter, c \in S}

Pads == SeqsUpTo(Whitespace, MaxPad)

\* first words of statements: the three the tool lets through, statements
\* that write, and words that agree with a read-only word only in part
FirstWords ==
    {SELECT, SHOW, DESC,
     <<"D", "R", "O", "P">>, <<"D", "E", "L", "E", "T", "E">>,
     <<"S", "E", "T">>, <<"S", "E", "L", "E", "C">>, <<"W", "I", "T", "H">>,
     <<"D", "E", "S", "C", "R", "I", "B", "E">>, << >>}

\* a word in upper case, in lower case and capitalised
Casings(w) ==
    {w,
     [i \in DOMAIN w |-> LowerChar(w[i])],
     [i \in DOMAIN w |-> IF i = 1 THEN w[i] ELSE LowerChar(w[i])]}

Rests == {<< >>,
          <<" ", "*", " ", "f", "r", "o", "m", " ", "t">>,
          <<" ", "T", "A", "B", "L", "E", " ", "x">>}

\* what may stand before the first word besides whitespace
Fronts == {<< >>, <<"x", " ">>}

\* the query texts the tool is invoked with
Queries ==
    {lead \o front \o w \o rest \o trail :
        lead \in Pads, front \in Fronts,
        w \in UNION {Casings(fw0) : fw0 \in FirstWords},
        rest \in Rests, trail \in {<< >>, <<" ">>}}

\* BigQueryToolInput: the action and the query, which is None when left out
BqInputs ==
    {[action |-> "GET_METADATA", query |-> None]}
    \cup {[action |-> "QUERY", query |-> q] :
             q \in {None} \cup {Some(t) : t \in Queries}}

\* the statement get_metadata submits
MetadataQuery == <<"metadata">>

\* what the backend does with a submitted statement
BackendOutcomes == {"rows", "no_rows", "fails"}

\* the rows of a result; an error of the client library
Rows == <<"row">>
BackendError == <<"backend error">>

\* validate_input(input_data) raises: the action is QUERY and the query is
\* None or the empty text.  _run does not call it.
ValidateInputRaises(action, query) ==
    action = "QUERY" /\ (query = None \/ query[1] = << >>)

\* the tool is invoked: _run is entered with a validated input
BqRun(input) ==
    /\ bq.pc = "idle"
    /\ bq' = [bq EXCEPT !.pc = "run", !.action = input.action,
                        !.query = input.query]
    /\ UNCHANGED <<fw, sessionVars, calls, agentMemory, requestVars,
                   eventVars, loopVars>>

\* connection(): the client is made, or making it fails and the failure
\* is raised again with its text
BqConnection(ok) ==
    /\ bq.pc = "run"
    /\ bq' = IF ok
             THEN [bq EXCEPT !.pc = "connected", !.connections = @ + 1,
                             !.backend = Append(@, "connected")]
             ELSE [bq EXCEPT !.pc = "raised",
                             !.backend = Append(@, "connect_fails"),
                             !.raised = <<<<"Unable to connect to database: ">>,
                                          BackendError>>]
    /\ UNCHANGED <<fw, sessionVars, calls, agentMemory, requestVars,
                   eventVars, loopVars>>

\* get_metadata(engine) up to the answer of the backend
BqGetMetadata ==
    /\ bq.pc = "connected"
    /\ bq.action = "GET_METADATA"
    /\ bq' = [bq EXCEPT !.pc = "submitted",
                        !.submitted = Append(@, MetadataQuery)]
    /\ UNCHANGED <<fw, sessionVars, calls, agentMemory, requestVars,
                   eventVars, loopVars>>

BqExecuteQuerySubmitsFirst ==
    /\ bq.pc = "connected"
    /\ bq.action = "QUERY"
    /\ bq' = IF bq.query = None
             THEN [bq EXCEPT !.pc = "raised",
                             !.raised = <<<<"AttributeError">>>>]
             ELSE IF ~IsReadOnlyQuery(bq.query[1])
             THEN [bq EXCEPT !.pc = "returned",
                             !.checked = Some(FALSE),
                             !.submitted = Append(@, bq.query[1]),
                             !.result =
                                 [success |-> FALSE,
                                  error |-> Some(<<"Invalid query. Only SELECT queries are allowed.">>),
                                  results |-> None]]
             ELSE [bq EXCEPT !.pc = "submitted",
                             !.checked = Some(TRUE),
                             !.submitted = Append(@, bq.query[1])]
    /\ UNCHANGED <<fw, sessionVars, calls, agentMemory, requestVars,
                   eventVars, loopVars>>

\* execute_query(input.query, engine) up to the answer of the backend: a
\* query that is None has no strip(); a statement that fails the read-only
\* test is answered at once; any other is submitted
BqExecuteQuery ==
    /\ bq.pc = "connected"
    /\ bq.action = "QUERY"
    /\ bq' = IF bq.query = None
             THEN [bq EXCEPT !.pc = "raised",
                             !.raised = <<<<"AttributeError">>>>]
             ELSE IF ~IsReadOnlyQuery(bq.query[1])
             THEN [bq EXCEPT !.pc = "returned",
                             !.checked = Some(FALSE),
                             !.result =
                                 [success |-> FALSE,
                                  error |-> Some(<<"Invalid query. Only SELECT queries are allowed.">>),
                                  results |-> None]]
             ELSE [bq EXCEPT !.pc = "submitted",
                             !.checked = Some(TRUE),
                             !.submitted = Append(@, bq.query[1])]
    /\ UNCHANGED <<fw, sessionVars, calls, agentMemory, requestVars,
                   eventVars, loopVars>>

ExecuteQueryAnswerSwallows(b, outcome) ==
    IF outcome = "rows"
    THEN [b EXCEPT !.pc = "returned",
                   !.result = [success |-> TRUE, error |-> None,
                               results |-> Some(Rows)]]
    ELSE [b EXCEPT !.pc = "returned",
                   !.result = [success |-> FALSE,
                               error |-> Some(<<"No rows selected">>),
                               results |-> None]]

ExecuteQueryAnswerEmptySuccess(b, outcome) ==
    IF outcome = "fails"
    THEN [b EXCEPT !.pc = "raised",
                   !.raised =
                       <<<<"Generate a correct query that retrieves data using the appropriate dialect. The original request was: ">>,
                         b.query[1], <<", and the error was: ">>, BackendError>>]
    ELSE [b EXCEPT !.pc = "returned",
                   !.result = [success |-> TRUE, error |-> None,
                               results |-> Some(IF outcome = "rows"
                                                THEN Rows ELSE << >>)]]

\* execute_query from the answer of the backend on: rows make the success
\* envelope, no rows the "No rows selected" envelope, and an exception is
\* raised again with the query and its text
ExecuteQueryAnswer(b, outcome) ==
    IF outcome = "fails"
    THEN [b EXCEPT !.pc = "raised",
                   !.raised =
                       <<<<"Generate a correct query that retrieves data using the appropriate dialect. The original request was: ">>,
                         b.query[1], <<", and the error was: ">>, BackendError>>]
    ELSE IF outcome = "rows"
    THEN [b EXCEPT !.pc = "returned",
                   !.result = [success |-> TRUE, error |-> None,
                               results |-> Some(Rows)]]
    ELSE [b EXCEPT !.pc = "returned",
                   !.result = [success |-> FALSE,
                               error |-> Some(<<"No rows selected">>),
                               results |-> None]]

\* _run for GET_METADATA from the answer of the backend on: the records go
\* into a success envelope, and an exception of get_metadata goes up as it is
GetMetadataAnswer(b, outcome) ==
    IF outcome = "fails"
    THEN [b EXCEPT !.pc = "raised", !.raised = <<BackendError>>]
    ELSE [b EXCEPT !.pc = "returned",
                   !.result = [success |-> TRUE, error |-> None,
                               results |-> Some(IF outcome = "rows"
                                                THEN Rows ELSE << >>)]]

\* the backend answers the submitted statement and the tool returns or
\* raises
BqBackend(outcome) ==
    /\ bq.pc = "submitted"
    /\ LET answered == [bq EXCEPT !.backend = Append(@, outcome)] IN
         bq' = IF bq.action = "GET_METADATA"
               THEN GetMetadataAnswer(answered, outcome)
               ELSE ExecuteQueryAnswer(answered, outcome)
    /\ UNCHANGED <<fw, sessionVars, calls, agentMemory, requestVars,
                   eventVars, loopVars>>

NextQueryTool ==
    \/ \E input \in BqInputs : BqRun(input)
    \/ \E ok \in BOOLEAN : BqConnection(ok)
    \/ BqGetMetadata
    \/ BqExecuteQuery
    \/ \E outcome \in BackendOutcomes : BqBackend(outcome)

\* one invocation of the query tool
SpecQueryTool == Init /\ [][NextQueryTool]_vars

----------------------------------------------------------------------------
(* The fiscal week tool (FiscalWeekTool).  A date is its year, month and   *)
(* day; datetime.date holds the years 1 to 9999 of the proleptic Gregorian *)
(* calendar.                                                               *)

\* years the tool is invoked with: the first and the last year of
\* datetime.date, the first year of four digits, leap and common years,
\* century years of both kinds
Years == {1, 2, 999, 1000, 1900, 2000, 2023, 2024, 2025, 9998, 9999}

IsLeap(y) == y % 4 = 0 /\ (y % 100 # 0 \/ y % 400 = 0)

DaysInMonth(y, m) ==
    IF m = 2 THEN (IF IsLeap(y) THEN 29 ELSE 28)
    ELSE IF m \in {4, 6, 9, 11} THEN 30 ELSE 31

\* the dates a FiscalWeekToolInput can hold
Dates ==
    {[year |-> y, month |-> m, day |-> d] :
        y \in Years, m \in 1..12, d \in 1..31} \ 
    {dt \in [year : Years, month : 1..12, day : 1..31] :
        dt.day > DaysInMonth(dt.year, dt.month)}

\* datetime.date(year, month, day) succeeds
ValidDate(y, m, d) ==
    /\ y \in 1..9999
    /\ m \in 1..12
    /\ d \in 1..DaysInMonth(y, m)

RECURSIVE DaysBeforeMonth(_, _)
DaysBeforeMonth(y, m) ==
    IF m = 1 THEN 0 ELSE DaysBeforeMonth(y, m - 1) + DaysInMonth(y, m - 1)

\* date.toordinal(): days since the day before 0001-01-01
ToOrdinal(y, m, d) ==
    LET p == y - 1
    IN  p * 365 + (p \div 4) - (p \div 100) + (p \div 400)
        + DaysBeforeMonth(y, m) + d

DigitChar(n) == IF n = 0 THEN "0" ELSE Digits[n]

\* str(n) of an int that is not negative
RECURSIVE StrOfNat(_)
StrOfNat(n) ==
    IF n < 10 THEN <<DigitChar(n)>>
    ELSE Append(StrOfNat(n \div 10), DigitChar(n % 10))

FormatUnpadded(n) == StrOfNat(n)

\* f"{n:02d}"
Format02d(n) == IF n < 10 THEN <<"0">> \o StrOfNat(n) ELSE StrOfNat(n)

\* get_aus_financial_year_week: the year of the 1 July the weeks are
\* counted from
FyStartYear(d) == IF d.month >= 7 THEN d.year ELSE d.year - 1

\* get_aus_financial_year_week(date), once fy_start has been made
GetAusFinancialYearWeek(d) ==
    LET delta_days == ToOrdinal(d.year, d.month, d.day)
                          - ToOrdinal(FyStartYear(d), 7, 1)
        week_number == delta_days \div 7 + 1
    IN  Format02d(week_number)

\* to_fiscalweekid(d): the envelope it returns, or the ValueError of
\* datetime.date for a fy_start outside the years of datetime.date
ToFiscalWeekId(d) ==
    LET fy == IF d.month > 6 THEN d.year + 1 ELSE d.year
    IN  IF ~ValidDate(FyStartYear(d), 7, 1)
        THEN [pc |-> "raised", year |-> d.year, month |-> d.month,
              day |-> d.day, result |-> << >>]
        ELSE [pc |-> "returned", year |-> d.year, month |-> d.month,
              day |-> d.day,
              result |-> StrOfNat(fy) \o GetAusFinancialYearWeek(d)]

\* the tool is invoked with a date: _run
FwRun(d) ==
    /\ fw.pc = "idle"
    /\ fw' = ToFiscalWeekId(d)
    /\ UNCHANGED <<bq, sessionVars, calls, agentMemory, requestVars,
                   eventVars, loopVars>>

NextFiscalWeek == \E d \in Dates : FwRun(d)

\* one invocation of the fiscal week tool
SpecFiscalWeek == Init /\ [][NextFiscalWeek]_vars

----------------------------------------------------------------------------
(* The claims. *)

(* C1, as stated: for every session identifier s that is not a key of the *)
(* map, get_or_create(s) returns a Memory without turns, and every later  *)
(* get_or_create(s) returns that same Memory object.                      *)
C1_AsStated ==
    \A i \in 1..Len(calls) :
        (calls[i].arg # None /\ ~calls[i].known) =>
            /\ calls[i].turns = << >>
            /\ \A j \in (i+1)..Len(calls) :
                   calls[j].arg = calls[i].arg =>
                       calls[j].memory = calls[i].memory

(* C1, amended: for every non-empty session identifier s that is not a    *)
(* key of the map, get_or_create(s) returns s with a Memory without       *)
(* turns, and every later get_or_create(s), whatever calls lie between,   *)
(* returns that same Memory object.                                        *)
C1_FirstCallEmptyThenSameMemory ==
    \A i \in 1..Len(calls) :
        (Truthy(calls[i].arg) /\ ~calls[i].known) =>
            /\ calls[i].turns = << >>
            /\ calls[i].session_id = calls[i].arg[1]
            /\ \A j \in (i+1)..Len(calls) :
                   calls[j].arg = calls[i].arg =>
                       /\ calls[j].memory = calls[i].memory
                       /\ calls[j].session_id = calls[i].session_id

\* a first call for "a", a call for something else, turns added, then "a"
\* again
C1_Witness ==
    \E i, k, j \in 1..Len(calls) :
        /\ i < k /\ k < j
        /\ Truthy(calls[i].arg) /\ ~calls[i].known
        /\ calls[k].arg # calls[i].arg
        /\ calls[j].arg = calls[i].arg
        /\ calls[j].turns # << >>

(* C2: any two separate calls get_or_create(None) return two distinct     *)
(* session identifiers and two distinct Memory objects, whatever calls    *)
(* happen in between.                                                      *)
C2_NoneCallsDistinct ==
    \A i, j \in 1..Len(calls) :
        (i < j /\ calls[i].arg = None /\ calls[j].arg = None) =>
            /\ calls[i].session_id # calls[j].session_id
            /\ calls[i].memory # calls[j].memory

\* two None calls with another call between them
C2_Witness ==
    \E i, k, j \in 1..Len(calls) :
        /\ i < k /\ k < j
        /\ calls[i].arg = None /\ calls[j].arg = None
        /\ calls[k].arg # None

(* C3, as stated: whatever the interleaving of requests in flight, every  *)
(* turn the run of a request appends goes to the Memory of that request's *)
(* own session.                                                            *)
C3_RunsUseOwnMemory ==
    \A m \in DOMAIN memTurns : \A i \in 1..Len(memTurns[m]) :
        memTurns[m][i].by \in Requests => m = mem[memTurns[m][i].by]

\* two requests for different sessions are in flight and a run has stepped
C3_Concurrent ==
    \E q, r \in Requests :
        /\ q # r /\ runState[q] = "running" /\ runState[r] = "running"
        /\ mem[q] # mem[r]
        /\ RunTurns > 0

(* C4: the buffered chat operation never raises on an executor failure:   *)
(* whatever exception ended the run, the handler returns a response whose *)
(* text begins with "Agent error: " and which carries the resolved        *)
(* session_id and an events list; when the run succeeds the text is the   *)
(* run's final answer.                                                     *)
C4_BufferedNeverRaises ==
    \A r \in Requests :
        (pc[r] = "done" /\ req[r].mode = "chat") =>
            /\ response[r].kind = "chat"
            /\ ~response[r].raised
            /\ response[r].session_id = sid[r]
            /\ sid[r] \in DOMAIN sessions
            /\ \A i \in 1..Len(response[r].events) :
                   response[r].events[i].type \in Recognized
            /\ runResult[r].kind = "ok" =>
                   response[r].response = runResult[r].text
            /\ runResult[r].kind # "ok" =>
                   /\ Len(response[r].response) > 1
                   /\ Head(response[r].response) = "Agent error: "

\* a buffered request whose run raised a generic exception has returned
C4_Witness ==
    \E r \in Requests :
        /\ pc[r] = "done" /\ req[r].mode = "chat"
        /\ runResult[r].kind = "generic"
        /\ response[r].events # << >>

\* the collector applied to a whole sequence of events, first to last
RECURSIVE CollectAll(_)
CollectAll(events) ==
    IF events = << >> THEN << >>
    ELSE CaptureEvent(CollectAll(SubSeq(events, 1, Len(events) - 1)),
                      events[Len(events)]).events

(* C5: the events list of a buffered response is exactly the projection,  *)
(* in emission order, of the lifecycle events the request's run emitted   *)
(* before it ended, whether the run completed or raised.                   *)
C5_ResponseEventsAreRunEvents ==
    \A r \in Requests :
        (pc[r] = "done" /\ req[r].mode = "chat") =>
            response[r].events = CollectAll(emitted[r])

\* a response of a run that raised after emitting two recognized events
\* and one the collector does not know
C5_Witness ==
    \E r \in Requests :
        /\ pc[r] = "done" /\ req[r].mode = "chat"
        /\ runResult[r].kind # "ok"
        /\ Len(response[r].events) = 2
        /\ Len(emitted[r]) = 3

NamesOf(events) == [i \in 1..Len(events) |-> events[i].name]
TypesOf(records) == [i \in 1..Len(records) |-> records[i].type]

(* C6: for any sequence of N lifecycle events delivered to the collector  *)
(* of one run, the collected list has length at most N and the records of *)
(* recognized kinds appear in the order in which the events were emitted. *)
C6_ProjectionOrderPreserving ==
    \A r \in Requests :
        req[r].mode = "chat" =>
            /\ Len(collected[r]) <= Len(emitted[r])
            /\ TypesOf(collected[r]) =
                   NamesOf(SelectSeq(emitted[r], IsRecognized))

\* two different recognized events around one that is dropped
C6_Witness ==
    \E r \in Requests :
        /\ req[r].mode = "chat"
        /\ Len(emitted[r]) = 3
        /\ Len(collected[r]) = 2
        /\ emitted[r][2].name \notin Recognized
        /\ collected[r][1].type # collected[r][2].type

(* C7: the collector projects each recognized event to exactly the record *)
(* of the mapping table, and only update records carry a key.              *)
C7_MappingTableExact ==
    \A r \in Requests :
        req[r].mode = "chat" =>
            LET known == SelectSeq(emitted[r], IsRecognized) IN
            /\ Len(collected[r]) = Len(known)
            /\ \A i \in 1..Len(known) :
                   /\ collected[r][i] = TableRecord(known[i])
                   /\ (collected[r][i].key # None) = (known[i].name = "update")

\* an update of an int value, an error and a start have been collected
C7_Witness ==
    \E r \in Requests :
        /\ req[r].mode = "chat"
        /\ \E i, j, k \in 1..Len(collected[r]) :
              /\ collected[r][i].type = "update"
              /\ collected[r][i].message = <<"7">>
              /\ collected[r][j].type = "error"
              /\ collected[r][k].type = "start"

IsPrefix(s, t) == Len(s) <= Len(t) /\ SubSeq(t, 1, Len(s)) = s

(* C8: the collector is a pure append sink: an event of an unrecognized   *)
(* kind leaves the list unchanged and raises no error, every recognized   *)
(* event adds exactly one record at the end (equal events included), and  *)
(* the list at one moment is a prefix of the list at the next.             *)
C8_PureAppendSink ==
    [][\A r \in Requests :
          /\ IsPrefix(collected[r], collected'[r])
          /\ ~collectorRaised'[r]
          /\ (req[r].mode = "chat" /\ emitted'[r] # emitted[r]) =>
                LET e == emitted'[r][Len(emitted'[r])] IN
                IF e.name \in Recognized
                THEN /\ Len(collected'[r]) = Len(collected[r]) + 1
                     /\ collected'[r][Len(collected'[r])].type = e.name
                ELSE collected'[r] = collected[r]
          /\ emitted'[r] = emitted[r] => collected'[r] = collected[r]]_vars

\* the same event was collected twice, and an unknown one was dropped
C8_Witness ==
    \E r \in Requests :
        /\ req[r].mode = "chat"
        /\ Len(collected[r]) = 2
        /\ collected[r][1] = collected[r][2]
        /\ \E i \in 1..Len(emitted[r]) : emitted[r][i].name \notin Recognized

(* C9: a run whose reasoning capability fails at every step terminates,   *)
(* after at most max_iterations iterations, with a failed outcome.         *)
C9_AlwaysFailingRunTerminates ==
    /\ [](\A r \in Traced :
             reasoning[r] = "always_fails" =>
                 /\ iteration[r] <= Budget(r).max_iterations
                 /\ runState[r] # "succeeded")
    /\ \A r \in Traced :
           reasoning[r] = "always_fails" => <>(runState[r] = "failed")

\* an always-failing run has ended as failed and its handler has returned
C9_Witness ==
    \E r \in Traced :
        /\ reasoning[r] = "always_fails"
        /\ runState[r] = "failed"
        /\ iteration[r] > 1
        /\ pc[r] = "done"

(* C10: the budget is respected in every state of a run: a failing step   *)
(* is retried at most max_retries_per_step times before it is abandoned   *)
(* and the total-retry counter incremented, the run ends with a failure   *)
(* as soon as the total-retry counter exceeds total_max_retries or the    *)
(* iteration count would exceed max_iterations, and no step runs after.   *)
C10_BudgetRespected ==
    /\ [](\A r \in Traced :
             /\ phase[r] = "step" =>
                    stepRetries[r] <= Budget(r).max_retries_per_step
             /\ iteration[r] <= Budget(r).max_iterations
             /\ runState[r] = "running" =>
                    totalRetries[r] <= Budget(r).total_max_retries
             /\ totalRetries[r] > Budget(r).total_max_retries =>
                    (runState[r] = "failed" /\ runResult[r] = BudgetFailure))
    /\ [][\A r \in Traced :
             /\ totalRetries'[r] # totalRetries[r] =>
                    /\ totalRetries'[r] = totalRetries[r] + 1
                    /\ stepRetries[r] = Budget(r).max_retries_per_step
                    /\ phase'[r] = "idle"
             /\ (/\ runState[r] = "running" /\ phase[r] = "idle"
                 /\ iteration[r] = Budget(r).max_iterations
                 /\ <<iteration[r], phase[r], runState[r]>>
                        # <<iteration'[r], phase'[r], runState'[r]>>) =>
                    (runState'[r] = "failed" /\ runResult'[r] = BudgetFailure)
             /\ runState[r] \in {"succeeded", "failed"} =>
                    /\ runState'[r] = runState[r]
                    /\ iteration'[r] = iteration[r]
                    /\ stepRetries'[r] = stepRetries[r]
                    /\ totalRetries'[r] = totalRetries[r]
                    /\ phase'[r] = phase[r]]_vars

\* a run ended by its total-retry budget
C10_Witness ==
    \E r \in Traced :
        /\ runState[r] = "failed"
        /\ totalRetries[r] > Budget(r).total_max_retries
        /\ iteration[r] < Budget(r).max_iterations

\* a run ended by its iteration budget
C10_IterationsSpent ==
    \E r \in Traced :
        /\ runState[r] = "failed"
        /\ iteration[r] = Budget(r).max_iterations /\ phase[r] = "idle"
        /\ totalRetries[r] <= Budget(r).total_max_retries

(* C11: every run started by the buffered entry point and every run       *)
(* started by the streaming entry point is given the budget               *)
(* max_retries_per_step=3, total_max_retries=10, max_iterations=20, and   *)
(* that budget does not change during the run.                             *)
C11_BudgetGivenAndKept ==
    /\ [](\A r \in Requests :
             runState[r] # "none" =>
                 /\ execution[r].max_retries_per_step = 3
                 /\ execution[r].total_max_retries = 10
                 /\ execution[r].max_iterations = 20)
    /\ [][\A r \in Requests :
             runState[r] # "none" => execution'[r] = execution[r]]_vars

\* the run of a streaming request has been started and has ended
C11_Witness ==
    \E r \in Requests :
        /\ req[r].mode = "stream"
        /\ runState[r] = "succeeded"
        /\ pc[r] = "done"


\* C12: requests in flight together that name the same session identifier,
\* unknown before the first of them, all get the same identifier and the same
\* Memory object, which is the one the map binds to it, and no Memory object
\* was made beyond one per key of the map.
C12_SingleCreation ==
    /\ \A q \in Requests : \A r \in Requests :
          (/\ pc[q] # "idle"
           /\ pc[r] # "idle"
           /\ Truthy(req[q].session_id)
           /\ req[q].session_id = req[r].session_id) =>
              /\ sid[q] = sid[r]
              /\ mem[q] = mem[r]
              /\ sid[r] \in DOMAIN sessions
              /\ sessions[sid[r]] = mem[r]
    /\ nextMem - 1 = Cardinality(DOMAIN sessions)

InFlight(r) == pc[r] \in {"chat_running", "stream_open", "stream_running"}

C12_Witness ==
    \E q \in Requests : \E r \in Requests :
        /\ q < r
        /\ InFlight(q)
        /\ InFlight(r)
        /\ req[q].session_id = Some("a")
        /\ req[r].session_id = Some("a")
        /\ req[q].mode # req[r].mode
        /\ mem[q] = mem[r]
        /\ DOMAIN sessions = {"a"}


\* the call a step of get_or_create has just logged
LastCall == calls'[Len(calls')]

\* the argument names no key of the map the call finds
ArgUnknown(arg) == arg = None \/ arg[1] \notin DOMAIN sessions

\* the call bound its identifier, not a key before, to a new empty Memory
BoundToNewEmptyMemory(c) ==
    /\ c.session_id \notin DOMAIN sessions
    /\ c.memory \notin DOMAIN memTurns
    /\ DOMAIN sessions' = DOMAIN sessions \cup {c.session_id}
    /\ sessions'[c.session_id] = c.memory
    /\ memTurns'[c.memory] = << >>

\* the identifier is a uuid4 drawn by this call
FreshlyGenerated(id) == id \in DrawnUuids' /\ id \notin DrawnUuids

\* C13 as stated: every call whose session_id is absent or is not a key
\* returns a freshly generated identifier bound to a new empty Memory.
C13_AsStated ==
    [][calls' # calls =>
          (ArgUnknown(LastCall.arg) =>
              /\ FreshlyGenerated(LastCall.session_id)
              /\ BoundToNewEmptyMemory(LastCall))]_vars

\* C13, amended: a call whose session_id is absent or empty returns a freshly
\* generated identifier; a call whose session_id is a non-empty string that
\* is not a key returns that same string; either way the identifier was not
\* a key before and is bound to a new empty Memory.
C13_FreshOrSuppliedIdentifier ==
    [][calls' # calls =>
          (ArgUnknown(LastCall.arg) =>
              /\ IF LastCall.arg = None \/ LastCall.arg = Some("")
                 THEN FreshlyGenerated(LastCall.session_id)
                 ELSE /\ LastCall.session_id = LastCall.arg[1]
                      /\ DrawnUuids' = DrawnUuids
              /\ BoundToNewEmptyMemory(LastCall))]_vars

C13_Witness ==
    \E i \in 1..Len(calls) : \E j \in 1..Len(calls) : \E k \in 1..Len(calls) :
        /\ calls[i].arg = Some("a")
        /\ ~calls[i].known
        /\ calls[i].session_id = "a"
        /\ calls[i].turns = << >>
        /\ calls[j].arg = None
        /\ calls[j].session_id \in DrawnUuids
        /\ calls[k].arg = Some("")
        /\ calls[k].session_id \in DrawnUuids


\* C14: a call whose session_id is already a key returns that identifier
\* with the Memory the map binds to it, and leaves the keys, the binding of
\* every key, the turns of every Memory and the set of Memory objects as
\* they were.
C14_KnownCallChangesNothing ==
    [][(calls' # calls /\ ~ArgUnknown(LastCall.arg)) =>
          /\ LastCall.session_id = LastCall.arg[1]
          /\ LastCall.memory = sessions[LastCall.arg[1]]
          /\ LastCall.turns = memTurns[LastCall.memory]
          /\ sessions' = sessions
          /\ memTurns' = memTurns
          /\ nextMem' = nextMem
          /\ uuidCount' = uuidCount]_vars

C14_Witness ==
    \E i \in 1..Len(calls) :
        /\ calls[i].known
        /\ calls[i].arg = Some("b")
        /\ calls[i].turns # << >>
        /\ Cardinality(DOMAIN sessions) >= 2


\* C15: in every state, two different keys of the session map are bound to
\* two different Memory objects.
C15_NoSharedMemory ==
    \A s \in DOMAIN sessions : \A t \in DOMAIN sessions :
        s # t => sessions[s] # sessions[t]

C15_Witness ==
    /\ Cardinality(DOMAIN sessions) >= 2
    /\ "a" \in DOMAIN sessions
    /\ \E q \in Requests : \E r \in Requests :
          /\ q < r
          /\ req[q].mode = "chat"
          /\ req[r].mode = "stream"
          /\ pc[q] = "done"
          /\ sid[q] # sid[r]
          /\ sid[r] \in DrawnUuids


C17_StreamHeaderAndBody ==
    /\ [](\A r \in Traced :
             req[r].mode = "stream" =>
                 /\ response[r].kind = "stream"
                 /\ response[r].session_id = sid[r]
                 /\ sid[r] \in DOMAIN sessions
                 /\ sessions[sid[r]] = mem[r]
                 /\ pc[r] = "stream_running" => agentMemory = mem[r]
                 /\ response[r].events = << >>
                 /\ IsPrefix(response[r].response, runResult[r].text)
                 /\ (pc[r] = "done" /\ ~response[r].raised) =>
                        response[r].response = runResult[r].text)
    /\ [][\A r \in Traced :
             (req[r].mode = "stream" /\ response'[r] # response[r]) =>
                 /\ Len(response[r].response) < Len(runResult[r].text)
                 /\ response'[r] =
                        [response[r] EXCEPT !.response =
                            Append(@, runResult[r].text[Len(@) + 1])]
                        \/ response'[r] = [response[r] EXCEPT !.raised = TRUE]
          ]_vars

C17_Witness ==
    \E r \in Traced :
        /\ req[r].mode = "stream"
        /\ req[r].session_id = None
        /\ pc[r] = "done"
        /\ response[r].session_id \in DrawnUuids
        /\ response[r].response = <<"The ", "answer">>
        /\ Len(emitted[r]) >= 1


\* the text, after its leading whitespace, begins with the word, letters
\* compared without regard to case
BeginsWithWord(t, word) ==
    \E k \in 0..Len(t) :
        /\ \A i \in 1..k : t[i] \in Whitespace
        /\ k + Len(word) <= Len(t)
        /\ \A j \in 1..Len(word) : LowerChar(t[k + j]) = LowerChar(word[j])

\* the statement is a SELECT, SHOW or DESC statement
ReadOnlyStatement(t) ==
    \/ BeginsWithWord(t, SELECT)
    \/ BeginsWithWord(t, SHOW)
    \/ BeginsWithWord(t, DESC)

\* C18: whenever the tool has tested a query, is_read_only_query gave true
\* exactly if the query, after its surrounding whitespace and without regard
\* to case, begins with SELECT, SHOW or DESC; "DROP TABLE x" gives false and
\* "  select * from t" gives true.
C18_ReadOnlyIsPrefixTest ==
    /\ bq.checked # None =>
           bq.checked[1] = ReadOnlyStatement(bq.query[1])
    /\ bq.query = Some(<<"D", "R", "O", "P", " ", "T", "A", "B", "L", "E",
                         " ", "x">>) => bq.checked # Some(TRUE)
    /\ bq.query = Some(<<" ", " ", "s", "e", "l", "e", "c", "t", " ", "*",
                         " ", "f", "r", "o", "m", " ", "t">>) =>
           bq.checked # Some(FALSE)

C18_Witness ==
    /\ bq.query = Some(<<" ", " ", "s", "e", "l", "e", "c", "t", " ", "*",
                         " ", "f", "r", "o", "m", " ", "t">>)
    /\ bq.checked = Some(TRUE)
    /\ bq.submitted # << >>

C18_DropRejected ==
    /\ bq.query = Some(<<"D", "R", "O", "P", " ", "T", "A", "B", "L", "E",
                         " ", "x">>)
    /\ bq.checked = Some(FALSE)

\* a QUERY invocation with a statement that is not a SELECT, SHOW or DESC
\* statement
WritingQuery ==
    /\ bq.action = "QUERY"
    /\ bq.query # None
    /\ ~ReadOnlyStatement(bq.query[1])

InvalidQueryEnvelope ==
    [success |-> FALSE,
     error |-> Some(<<"Invalid query. Only SELECT queries are allowed.">>),
     results |-> None]

\* C19 as stated: every QUERY invocation with such a statement ends with an
\* envelope with success=false and an error message, and its statement is
\* never submitted.
C19_AsStated ==
    WritingQuery =>
        /\ bq.submitted = << >>
        /\ bq.pc \in {"returned", "raised"} =>
               /\ bq.pc = "returned"
               /\ ~bq.result.success
               /\ bq.result.error # None

\* C19, amended: the statement of such an invocation is never submitted; the
\* invocation that has its connection ends with the envelope with
\* success=false and the error "Invalid query. Only SELECT queries are
\* allowed."; the invocation whose connection cannot be made ends with the
\* error "Unable to connect to database" raised, not with an envelope.
C19_NeverSubmittedEnvelopeOnceConnected ==
    WritingQuery =>
        /\ bq.submitted = << >>
        /\ bq.pc = "returned" =>
               /\ bq.connections = 1
               /\ bq.result = InvalidQueryEnvelope
        /\ bq.pc = "raised" =>
               /\ bq.connections = 0
               /\ bq.raised[1] = <<"Unable to connect to database: ">>
        /\ bq.pc # "submitted"

C19_Witness ==
    /\ WritingQuery
    /\ bq.query[1] = <<"D", "R", "O", "P", " ", "T", "A", "B", "L", "E", " ",
                       "x">>
    /\ bq.pc = "returned"
    /\ bq.result.success = FALSE


\* the months of a fiscal year in their order, and the calendar year each
\* falls in for the fiscal year that starts on the 1 July of year y0
FiscalMonths == <<7, 8, 9, 10, 11, 12, 1, 2, 3, 4, 5, 6>>

\* days from the 1 July that starts the fiscal year of the date to the
\* date, counted month by month
DaysIntoFiscalYear(y, m, d) ==
    LET pos == CHOOSE i \in 1..12 : FiscalMonths[i] = m
        y0 == IF m >= 7 THEN y ELSE y - 1
        LengthAt(i) == DaysInMonth(IF FiscalMonths[i] >= 7 THEN y0 ELSE y0 + 1,
                                   FiscalMonths[i])
        Sum[i \in 0..12] == IF i = 0 THEN 0 ELSE Sum[i - 1] + LengthAt(i)
    IN  Sum[pos - 1] + (d - 1)

\* the identifier of the date: the fiscal year, then the week as two digits
FiscalWeekIdOf(y, m, d) ==
    LET fy == IF m >= 7 THEN y + 1 ELSE y
        week == DaysIntoFiscalYear(y, m, d) \div 7 + 1
    IN  StrOfNat(fy) \o <<DigitChar(week \div 10), DigitChar(week % 10)>>

\* C20: for every date the tool is invoked with, to_fiscalweekid returns
\* the fiscal year followed by the two-digit week counted in 7-day blocks
\* from the 1 July that starts the fiscal year; 2024-07-01 gives "202501"
\* and 2024-06-30 gives "202453", week 53 being the last week of FY2024.
C20_EveryDateHasIdentifier ==
    fw.pc # "idle" =>
        /\ fw.pc = "returned"
        /\ fw.result = FiscalWeekIdOf(fw.year, fw.month, fw.day)
        /\ (fw.year = 2024 /\ fw.month = 7 /\ fw.day = 1) =>
               fw.result = <<"2", "0", "2", "5", "0", "1">>
        /\ (fw.year = 2024 /\ fw.month = 6 /\ fw.day = 30) =>
               fw.result = <<"2", "0", "2", "4", "5", "3">>

\* the same for the dates from 0001-07-01 on
C20_FromFirstFiscalYear ==
    (fw.pc # "idle" /\ (fw.year > 1 \/ fw.month >= 7)) =>
        /\ fw.pc = "returned"
        /\ fw.result = FiscalWeekIdOf(fw.year, fw.month, fw.day)
        /\ (fw.year = 2024 /\ fw.month = 7 /\ fw.day = 1) =>
               fw.result = <<"2", "0", "2", "5", "0", "1">>
        /\ (fw.year = 2024 /\ fw.month = 6 /\ fw.day = 30) =>
               fw.result = <<"2", "0", "2", "4", "5", "3">>

\* a date of the first half of year 1 has been converted
C20_Witness ==
    /\ fw.pc # "idle"
    /\ fw.year = 1
    /\ fw.month = 1
    /\ fw.day = 1

C20_LastDayOfFY2024 ==
    /\ fw.pc = "returned"
    /\ fw.year = 2024
    /\ fw.month = 6
    /\ fw.day = 30
    /\ fw.result = <<"2", "0", "2", "4", "5", "3">>


\* the pieces a text was put together from
PiecesOf(t) == {t[i] : i \in DOMAIN t}

\* C21: when the backend has failed, at the connection or at a statement,
\* the invocation has ended with an error raised to the executor that holds
\* the text of the cause, and with no envelope; the error for a failed
\* QUERY statement also holds the query as it was given.
C21_BackendFailuresRaised ==
    /\ ("connect_fails" \in PiecesOf(bq.backend)
            \/ "fails" \in PiecesOf(bq.backend)) =>
           /\ bq.pc = "raised"
           /\ BackendError \in PiecesOf(bq.raised)
           /\ bq.result = BqIdle.result
    /\ (bq.action = "QUERY" /\ "fails" \in PiecesOf(bq.backend)) =>
           /\ bq.query[1] \in PiecesOf(bq.raised)
           /\ bq.submitted = <<bq.query[1]>>

C21_Witness ==
    /\ bq.action = "QUERY"
    /\ bq.backend = <<"connected", "fails">>
    /\ bq.pc = "raised"
    /\ bq.query = Some(<<" ", " ", "s", "e", "l", "e", "c", "t", " ", "*",
                         " ", "f", "r", "o", "m", " ", "t">>)

C21_ConnectionFailed ==
    /\ bq.backend = <<"connect_fails">>
    /\ bq.pc = "raised"


\* C22: a QUERY invocation whose query is missing or empty never has a
\* connection opened, never has a statement submitted or answered, never
\* ends with a success envelope, and ends with an error raised to the
\* caller.
C22_RejectedBeforeBackendAccess ==
    (bq.pc # "idle" /\ ValidateInputRaises(bq.action, bq.query)) =>
        /\ bq.connections = 0
        /\ bq.backend = << >>
        /\ bq.submitted = << >>
        /\ ~(bq.pc = "returned" /\ bq.result.success)
        /\ bq.pc # "returned"

\* what holds of such an invocation: no statement is submitted and no
\* success envelope is returned
C22_NoStatementNoSuccess ==
    (bq.pc # "idle" /\ ValidateInputRaises(bq.action, bq.query)) =>
        /\ bq.submitted = << >>
        /\ ~(bq.pc = "returned" /\ bq.result.success)

\* a QUERY invocation with the empty text has been answered
C22_Witness ==
    /\ bq.action = "QUERY"
    /\ bq.query = Some(<< >>)
    /\ bq.connections = 1
    /\ bq.pc = "returned"
    /\ bq.result = InvalidQueryEnvelope

C22_MissingQuery ==
    /\ bq.action = "QUERY"
    /\ bq.query = None
    /\ bq.connections = 1
    /\ bq.pc = "raised"
    /\ bq.raised = <<<<"AttributeError">>>>


\* C23: for a streaming request, the run has completed exactly when the
\* fragments of its answer have all been delivered: while a fragment is
\* still to come the run is under way, and once the last has gone out the
\* run is complete.
C23_RunCompleteExactlyWhenExhausted ==
    \A r \in Traced :
        (req[r].mode = "stream" /\ runState[r] \in {"running", "succeeded"}) =>
            (runState[r] = "succeeded" <=>
                 response[r].response = runResult[r].text)

\* what holds instead: no fragment goes out before the run has completed
C23_FragmentsOnlyAfterRun ==
    \A r \in Traced :
        (req[r].mode = "stream" /\ response[r].response # << >>) =>
            /\ runState[r] = "succeeded"
            /\ pc[r] \in {"streaming", "done"}

\* the run of a streaming request has completed and no fragment has gone out
C23_Witness ==
    \E r \in Traced :
        /\ req[r].mode = "stream"
        /\ runState[r] = "succeeded"
        /\ pc[r] = "streaming"
        /\ response[r].response = << >>
        /\ runResult[r].text = <<"The ", "answer">>


\* C24: for a streaming request whose run has failed, the body holds no
\* fragment and never gets one, the stream ends with the failure raised and
\* not with a response, and at no time does the body of a streaming request
\* hold the text "Agent error: " or anything that is not a fragment of the
\* run's answer.
C24_FailureEndsStreamWithoutErrorText ==
    /\ [](\A r \in Traced :
             req[r].mode = "stream" =>
                 /\ runState[r] = "failed" =>
                        /\ response[r].response = << >>
                        /\ pc[r] \in {"stream_running", "done"}
                        /\ pc[r] = "done" => response[r].raised
                 /\ \A i \in DOMAIN response[r].response :
                        /\ response[r].response[i] # "Agent error: "
                        /\ response[r].response[i] = runResult[r].text[i]
                 /\ response[r].events = << >>)
    /\ [][\A r \in Traced :
             (req[r].mode = "stream" /\ runState[r] = "failed") =>
                 response'[r].response = response[r].response]_vars

C24_Witness ==
    \E r \in Traced :
        /\ req[r].mode = "stream"
        /\ runState[r] = "failed"
        /\ runResult[r].kind = "framework"
        /\ pc[r] = "done"
        /\ response[r].raised
        /\ response[r].response = << >>


\* C25: from the resolution of its session on, the identifier a request
\* got is a key of the session map bound to the Memory the request got; the
\* session_id of its response, in the body of a buffered response on the
\* success path and on both error paths and in the header of a streaming
\* one, is that identifier, and is the session_id of the request when that
\* was not empty; and the step in which the handler binds the agent for the
\* run binds it to that Memory.
C25_ResponseSessionIsResolvedSession ==
    /\ [](\A r \in Requests :
             pc[r] # "idle" =>
                 /\ sid[r] \in DOMAIN sessions
                 /\ sessions[sid[r]] = mem[r]
                 /\ Truthy(req[r].session_id) => sid[r] = req[r].session_id[1]
                 /\ response[r].kind # "none" =>
                        /\ ~response[r].raised => response[r].session_id = sid[r]
                        /\ response[r].kind = "stream" =>
                               response[r].session_id = sid[r])
    /\ [][\A r \in Requests :
             (runState[r] = "none" /\ runState'[r] = "running") =>
                 /\ agentMemory' = mem'[r]
                 /\ agentMemory' = sessions'[sid'[r]]]_vars
    /\ [](\A r \in Requests :
             (req[r].mode = "chat" /\ pc[r] = "done") => ~response[r].raised)

C25_Witness ==
    \E q \in Requests : \E r \in Requests :
        /\ req[q].mode = "chat"
        /\ req[q].session_id = Some("a")
        /\ pc[q] = "done"
        /\ runResult[q].kind = "generic"
        /\ response[q].session_id = "a"
        /\ req[r].mode = "stream"
        /\ req[r].session_id = None
        /\ pc[r] = "done"
        /\ response[r].raised
        /\ response[r].session_id \in DrawnUuids


\* C26: with buffered requests in flight together, the list a request
\* collects is at all times the projection of the events its own run has
\* emitted, the events of its response are that list, and a step in which
\* the run of one request emits an event leaves the list of every other
\* request as it was.
C26_EventsOfOwnRunOnly ==
    /\ [](\A r \in Requests :
             req[r].mode = "chat" =>
                 /\ collected[r] = CollectAll(emitted[r])
                 /\ pc[r] = "done" => response[r].events = collected[r])
    /\ [][\A r \in Requests : \A q \in Requests :
             (emitted'[r] # emitted[r] /\ q # r) =>
                 /\ collected'[q] = collected[q]
                 /\ emitted'[q] = emitted[q]]_vars

C26_Witness ==
    \E q \in Requests : \E r \in Requests :
        /\ q # r
        /\ req[q].session_id = Some("a")
        /\ req[r].session_id = Some("a")
        /\ runState[q] = "running"
        /\ runState[r] = "running"
        /\ Len(collected[q]) = 2
        /\ Len(emitted[r]) = 1
        /\ collected[r] = << >>


\* C27: the empty string is never a key of the session map and never the
\* identifier a call returns; a call with "" returns a generated identifier
\* that was not known, and two calls with "" return two different
\* identifiers and two different Memory objects.
C27_EmptyStringIsAbsent ==
    /\ "" \notin DOMAIN sessions
    /\ \A i \in 1..Len(calls) :
          /\ calls[i].session_id # ""
          /\ calls[i].arg = Some("") =>
                 /\ calls[i].session_id \in DrawnUuids
                 /\ ~calls[i].known
                 /\ calls[i].turns = << >>
    /\ \A i \in 1..Len(calls) : \A j \in 1..Len(calls) :
          (i < j /\ calls[i].arg = Some("") /\ calls[j].arg = Some("")) =>
              /\ calls[i].session_id # calls[j].session_id
              /\ calls[i].memory # calls[j].memory

\* two calls with "" and a call with the identifier the first one returned
\* between them
C27_Witness ==
    \E i \in 1..Len(calls) : \E k \in 1..Len(calls) : \E j \in 1..Len(calls) :
        /\ i < k /\ k < j
        /\ calls[i].arg = Some("")
        /\ calls[j].arg = Some("")
        /\ calls[k].arg = Some(calls[i].session_id)
        /\ calls[k].known


\* the number a text of digits reads as
DigitValue(c) == CHOOSE n \in 0..9 : DigitChar(n) = c
IsDigit(c) == \E n \in 0..9 : DigitChar(n) = c
RECURSIVE NumberOf(_)
NumberOf(t) ==
    IF t = << >> THEN 0
    ELSE 10 * NumberOf(SubSeq(t, 1, Len(t) - 1)) + DigitValue(t[Len(t)])

\* the order of dates
DateLeq(d, e) ==
    \/ d.year < e.year
    \/ d.year = e.year /\ d.month < e.month
    \/ d.year = e.year /\ d.month = e.month /\ d.day <= e.day

FourDigitYear(y) == y \in 1000..9999

\* the dates a converted date is compared with: the day after it, and the
\* first and last days of the calendar halves of every year
LaterDates(d) ==
    {e \in {[year |-> y, month |-> md[1], day |-> md[2]] :
                y \in Years, md \in {<<1, 1>>, <<6, 30>>, <<7, 1>>, <<12, 31>>}}
            \cup {IF d.day < DaysInMonth(d.year, d.month)
                  THEN [d EXCEPT !.day = @ + 1]
                  ELSE IF d.month < 12
                  THEN [d EXCEPT !.month = @ + 1, !.day = 1]
                  ELSE d} :
        FourDigitYear(e.year) /\ DateLeq(d, e)}

ConvertedDate == [year |-> fw.year, month |-> fw.month, day |-> fw.day]

\* the week part, 01 to 53, and the order of the identifiers of later dates
WeekPartAndOrder ==
    /\ \A i \in DOMAIN fw.result : IsDigit(fw.result[i])
    /\ Len(fw.result) >= 2
    /\ NumberOf(SubSeq(fw.result, Len(fw.result) - 1, Len(fw.result)))
           \in 1..53
    /\ \A e \in LaterDates(ConvertedDate) :
           NumberOf(fw.result) <= NumberOf(ToFiscalWeekId(e).result)

C28_FirstFourDigitDay ==
    /\ fw.pc = "returned"
    /\ fw.year = 1000
    /\ fw.month = 1
    /\ fw.day = 1
    /\ fw.result = <<"1", "0", "0", "0", "2", "7">>

\* C29: every envelope the query tool returns has success=true with a results
\* payload and no error, or success=false with an error message and no
\* results; a read-only query the backend answers with zero rows returns
\* success=false with the error "No rows selected".
C29_EnvelopesWellFormed ==
    bq.pc = "returned" =>
        /\ bq.result.success =>
               (bq.result.results # None /\ bq.result.error = None)
        /\ ~bq.result.success =>
               (bq.result.error # None /\ bq.result.results = None)
        /\ (/\ bq.action = "QUERY"
            /\ bq.checked = Some(TRUE)
            /\ bq.backend[Len(bq.backend)] = "no_rows")
               => bq.result = [success |-> FALSE,
                               error |-> Some(<<"No rows selected">>),
                               results |-> None]

C29_Witness ==
    /\ bq.pc = "returned"
    /\ bq.action = "QUERY"
    /\ bq.query # None
    /\ IsReadOnlyQuery(bq.query[1])
    /\ bq.backend = <<"connected", "no_rows">>
    /\ bq.submitted = <<bq.query[1]>>
    /\ bq.result.error = Some(<<"No rows selected">>)

=============================================================================
